---- MODULE Spec2Model ----
(***************************************************************************)
(* Capture-and-record pipeline of labControl/flir/bfly.py:                 *)
(* BflyCamera.start_recording / stop_recording / add_frame_to_video /      *)
(* capture / fileClosed / close and the loop of CameraProcess.run, driven  *)
(* by a controller that sets the three multiprocessing events and the      *)
(* shared file-name dictionary.                                            *)
(*                                                                         *)
(* File names are sequences of one-character strings, so that endswith,    *)
(* replace, split and join are computed as Python computes them.  A file   *)
(* is a sequence of cells, one cell per serialized struct field (or per    *)
(* pixel block); a file handle has a position and writes overwrite from    *)
(* that position, extending the file when they run past its end.           *)
(***************************************************************************)
EXTENDS Integers, Sequences, FiniteSets, TLC

\* ------------------------------------------------------------------ bounds
MaxFetch == 3
MaxRequests == 4
MaxTs == 1
\* largest timestamp multiple a frame carries when the methods are called directly
ApiMaxTs == 2
TsStep == 100000000

\* ------------------------------------------------------- program constants
VideoID == 6743
VideoVersion == 20

\* ------------------------------------------------------------- Python str
TWV == <<".", "t", "w", "v">>

Last(s) == s[Len(s)]

ButLast(s) == SubSeq(s, 1, Len(s) - 1)

\* str.endswith
EndsWith(s, suf) ==
    /\ Len(s) >= Len(suf)
    /\ SubSeq(s, Len(s) - Len(suf) + 1, Len(s)) = suf

\* str.replace for a one-character pattern
Replace(s, a, b) == [i \in 1..Len(s) |-> IF s[i] = a THEN b ELSE s[i]]

\* str.split(sep) for a one-character separator: always at least one piece
RECURSIVE SplitFrom(_, _, _, _)
SplitFrom(s, sep, i, cur) ==
    IF i > Len(s) THEN <<cur>>
    ELSE IF s[i] = sep THEN <<cur>> \o SplitFrom(s, sep, i + 1, <<>>)
    ELSE SplitFrom(s, sep, i + 1, Append(cur, s[i]))

Split(s, sep) == SplitFrom(s, sep, 1, <<>>)

\* sep.join(parts)
RECURSIVE Join(_, _)
Join(parts, sep) ==
    IF Len(parts) = 0 THEN <<>>
    ELSE IF Len(parts) = 1 THEN parts[1]
    ELSE parts[1] \o <<sep>> \o Join(Tail(parts), sep)

\* '/'.join(file_name.split('/')[:-1])
DirName(n) == Join(ButLast(Split(n, "/")), "/")

\* file_name.split('/')[-1]
BaseName(n) == Last(Split(n, "/"))

\* ------------------------------------------------------------ file system
NoFile == [name |-> <<>>, pos |-> 0, closed |-> TRUE]
NoImage == [id |-> 0, ts |-> 0, incomplete |-> FALSE]
NoName == <<>>
NoExc == "none"

Exists(fs, n) == n \in DOMAIN fs.files

\* os.makedirs(path, exist_ok=True)
makedirs(fs, path) == [fs EXCEPT !.dirs = @ \cup {path}]

\* os.listdir(path): the names of the entries of the directory
listdir(fs, path) == {BaseName(n) : n \in {m \in DOMAIN fs.files : DirName(m) = path}}

\* open(file_name, "wb"): creates the file or truncates it
OpenWB(fs, n) ==
    [fs EXCEPT !.files = [m \in (DOMAIN @) \cup {n} |-> IF m = n THEN <<>> ELSE @[m]]]

\* file.write(data) at the handle's position
WriteAt(content, pos, data) ==
    [i \in 1..(IF pos + Len(data) > Len(content) THEN pos + Len(data) ELSE Len(content)) |->
        IF i > pos /\ i <= pos + Len(data) THEN data[i - pos] ELSE content[i]]

FileWrite(w, data) ==
    [w EXCEPT !.fs.files[w.cam.video_file.name] = WriteAt(@, w.cam.video_file.pos, data),
              !.cam.video_file.pos = @ + Len(data)]

Raise(w, e) == [w EXCEPT !.exc = e]

\* ------------------------------------------------- ArTwvStructure records
Cell(f, v, ts) == [f |-> f, v |-> v, ts |-> ts]

HeaderFields ==
    <<"VideoID", "VideoVersion", "RecordedFrames", "VideoHeaderSize",
      "CalibrationData", "FrameData">>

\* ctypes.sizeof(TArVideoHeader): fixed by the type, whatever the field values
VideoHeaderSize == Len(HeaderFields)

\* bytes of a TArVideoHeader whose fields are h (a ctypes struct starts zeroed)
VideoHeaderBytes(h) == [i \in 1..Len(HeaderFields) |-> Cell(HeaderFields[i], h[HeaderFields[i]], 0)]

ZeroHeader == [f \in {HeaderFields[i] : i \in 1..Len(HeaderFields)} |-> 0]

\* bytes of a TArFrameHeader
FrameHeaderBytes(num, time) == <<Cell("FrameNumber", num, 0), Cell("FrameTime", time, 0)>>

FrameHeaderSize == Len(FrameHeaderBytes(0, 0))

\* converted_image.GetData().tobytes()
PixelBytes(img) == <<Cell("Pixels", img.id, img.ts)>>

\* ------------------------------------------------------------- BflyCamera
\* BflyCamera.__init__: the filming fields, and the driver's state of the camera
InitCam ==
    [recording_video |-> FALSE,
     video_file |-> NoFile,
     frames_recorded |-> 0,
     video_start_time |-> 0,
     converted_image |-> NoImage,
     initialized |-> FALSE,
     streaming |-> FALSE,
     begun |-> 0,
     life |-> <<>>]

\* (GetTimeStamp() - __video_start_time) * 1e-9, kept in units of 1e-9 s
FrameTime(ts, start) == ts - start

\* BflyCamera.BeginAcquisition; begun counts the calls the driver has seen and
\* life lists its acquisition and deinitialization calls in order
BeginAcquisition(w) ==
    [w EXCEPT !.cam.streaming = TRUE,
              !.cam.begun = @ + 1,
              !.cam.life = Append(@, "BeginAcquisition")]

\* BflyCamera.EndAcquisition
EndAcquisition(w) ==
    [w EXCEPT !.cam.streaming = FALSE, !.cam.life = Append(@, "EndAcquisition")]

\* self._camera.DeInit()
DeInit(w) ==
    [w EXCEPT !.cam.initialized = FALSE, !.cam.life = Append(@, "DeInit")]

\* BflyCamera.fileClosed
fileClosed(cam) ==
    IF cam.video_file = NoFile THEN TRUE ELSE cam.video_file.closed

\* BflyCamera.isRecording
isRecording(cam) == cam.recording_video

\* add_frame_to_video that forgets to count the frame it wrote
add_frame_to_video_NoCount(w, fault) ==
    LET frame_header == FrameHeaderBytes(w.cam.frames_recorded,
                            FrameTime(w.cam.converted_image.ts, w.cam.video_start_time))
    IN  \* write on a closed file
        IF w.cam.video_file.closed THEN Raise(w, "ValueError")
        ELSE IF fault = "write_frame_header" THEN Raise(w, "OSError")
        ELSE LET w1 == FileWrite(w, frame_header)
             IN  IF fault = "write_pixels" THEN Raise(w1, "OSError")
                 ELSE FileWrite(w1, PixelBytes(w1.cam.converted_image))

\* BflyCamera.add_frame_to_video; fault names the call that raises, if any
add_frame_to_video(w, fault) ==
    LET frame_header == FrameHeaderBytes(w.cam.frames_recorded,
                            FrameTime(w.cam.converted_image.ts, w.cam.video_start_time))
    IN  \* write on a closed file
        IF w.cam.video_file.closed THEN Raise(w, "ValueError")
        ELSE IF fault = "write_frame_header" THEN Raise(w, "OSError")
        ELSE LET w1 == FileWrite(w, frame_header)
             IN  IF fault = "write_pixels" THEN Raise(w1, "OSError")
                 ELSE [FileWrite(w1, PixelBytes(w1.cam.converted_image))
                          EXCEPT !.cam.frames_recorded = @ + 1]

\* capture that keeps the old current frame while nothing is being recorded
capture_KeepsFrameWhenIdle(w, img, fault) ==
    IF fault = "GetNextImage" THEN Raise(w, "SpinnakerException")
    ELSE IF w.cam.recording_video
         THEN add_frame_to_video([w EXCEPT !.cam.converted_image = img], fault)
         ELSE w

\* capture that records before it replaces the current frame
capture_RecordsBeforeFetch(w, img, fault) ==
    IF fault = "GetNextImage" THEN Raise(w, "SpinnakerException")
    ELSE LET w1 == IF w.cam.recording_video THEN add_frame_to_video(w, fault) ELSE w
         IN  IF w1.exc # NoExc THEN w1 ELSE [w1 EXCEPT !.cam.converted_image = img]

\* image_result.Save(name, self.imageFormat)
Save(w, name, img) ==
    [w EXCEPT !.fs = [OpenWB(@, name) EXCEPT !.files[name] = PixelBytes(img)]]

\* print('Image incomplete with image status ...'), kept in the camera's log
ReportIncomplete(w) ==
    [w EXCEPT !.cam.life = Append(@, "Image incomplete")]

\* BflyCamera.acquireImages for one image: an incomplete image is reported and
\* not saved, a complete one is saved under name
acquireImages(w, name, img) ==
    LET w1 == BeginAcquisition(w)
        w2 == IF img.incomplete THEN ReportIncomplete(w1)
              ELSE Save(w1, name, img)
    IN  EndAcquisition(w2)

\* capture that does not record a frame the driver reports as incomplete
capture_SkipsIncomplete(w, img, fault) ==
    IF fault = "GetNextImage" THEN Raise(w, "SpinnakerException")
    ELSE LET w1 == [w EXCEPT !.cam.converted_image = img]
         IN  IF w1.cam.recording_video /\ ~img.incomplete
             THEN add_frame_to_video(w1, fault) ELSE w1

\* BflyCamera.capture; img is the frame the driver delivers
capture(w, img, fault) ==
    IF fault = "GetNextImage" THEN Raise(w, "SpinnakerException")
    ELSE LET w1 == [w EXCEPT !.cam.converted_image = img]
         IN  IF w1.cam.recording_video THEN add_frame_to_video(w1, fault) ELSE w1

\* start_recording: the extension and separator rules applied to file_name
NormalizeName(file_name) ==
    Replace(IF ~EndsWith(file_name, TWV) THEN file_name \o TWV ELSE file_name, "\\", "/")

\* start_recording: tempName = file_name.split('.'); tempName[-2] += '1'
AlternateName(n) ==
    LET tempName == Split(n, ".")
    IN  Join([tempName EXCEPT ![Len(tempName) - 1] = @ \o <<"1">>], ".")

\* the name that is opened when the directory listing is not consulted
ChooseName_NoCheck(fs, n) == n

\* a choice of name that goes on adding "1" until the name is free
ChooseName_Retries(fs, n) ==
    IF BaseName(n) \notin listdir(fs, DirName(n)) THEN n
    ELSE IF BaseName(AlternateName(n)) \notin listdir(fs, DirName(n)) THEN AlternateName(n)
    ELSE AlternateName(AlternateName(n))

\* start_recording: the name that is opened, given the directory listing
ChooseName(fs, n) ==
    IF BaseName(n) \in listdir(fs, DirName(n)) THEN AlternateName(n) ELSE n

\* start_recording from open() on, which fetches a frame even when one is current
OpenSession_AlwaysFetches(w, n, img, fault) ==
    IF fault = "open" THEN Raise(w, "OSError")
    ELSE
    LET w1 == [w EXCEPT !.fs = OpenWB(@, n),
                        !.cam.video_file = [name |-> n, pos |-> 0, closed |-> FALSE]]
    IN  IF ~w1.cam.streaming /\ fault = "BeginAcquisition"
        THEN Raise(w1, "SpinnakerException")
        ELSE
        LET w2 == IF ~w1.cam.streaming THEN BeginAcquisition(w1) ELSE w1
            w3 == capture(w2, img, fault)
        IN  IF w3.exc # NoExc THEN w3
            ELSE IF fault = "write_placeholder" THEN Raise(w3, "OSError")
            ELSE [FileWrite(w3, VideoHeaderBytes(ZeroHeader))
                     EXCEPT !.cam.frames_recorded = 0,
                            !.cam.recording_video = TRUE,
                            !.cam.video_start_time = w3.cam.converted_image.ts]

\* start_recording from open() on, keeping the frame counter of the last session
OpenSession_NoReset(w, n, img, fault) ==
    IF fault = "open" THEN Raise(w, "OSError")
    ELSE
    LET w1 == [w EXCEPT !.fs = OpenWB(@, n),
                        !.cam.video_file = [name |-> n, pos |-> 0, closed |-> FALSE]]
    IN  IF ~w1.cam.streaming /\ fault = "BeginAcquisition"
        THEN Raise(w1, "SpinnakerException")
        ELSE
        LET w2 == IF ~w1.cam.streaming THEN BeginAcquisition(w1) ELSE w1
            w3 == IF w2.cam.converted_image = NoImage THEN capture(w2, img, fault) ELSE w2
        IN  IF w3.exc # NoExc THEN w3
            ELSE IF fault = "write_placeholder" THEN Raise(w3, "OSError")
            ELSE [FileWrite(w3, VideoHeaderBytes(ZeroHeader))
                     EXCEPT !.cam.recording_video = TRUE,
                            !.cam.video_start_time = w3.cam.converted_image.ts]

\* start_recording from open() on, keeping the time origin of the last session
OpenSession_NoOrigin(w, n, img, fault) ==
    IF fault = "open" THEN Raise(w, "OSError")
    ELSE
    LET w1 == [w EXCEPT !.fs = OpenWB(@, n),
                        !.cam.video_file = [name |-> n, pos |-> 0, closed |-> FALSE]]
    IN  IF ~w1.cam.streaming /\ fault = "BeginAcquisition"
        THEN Raise(w1, "SpinnakerException")
        ELSE
        LET w2 == IF ~w1.cam.streaming THEN BeginAcquisition(w1) ELSE w1
            w3 == IF w2.cam.converted_image = NoImage THEN capture(w2, img, fault) ELSE w2
        IN  IF w3.exc # NoExc THEN w3
            ELSE IF fault = "write_placeholder" THEN Raise(w3, "OSError")
            ELSE [FileWrite(w3, VideoHeaderBytes(ZeroHeader))
                     EXCEPT !.cam.frames_recorded = 0,
                            !.cam.recording_video = TRUE]

\* start_recording from open() on, which also records the current frame
OpenSession_WritesCurrent(w, n, img, fault) ==
    IF fault = "open" THEN Raise(w, "OSError")
    ELSE
    LET w1 == [w EXCEPT !.fs = OpenWB(@, n),
                        !.cam.video_file = [name |-> n, pos |-> 0, closed |-> FALSE]]
    IN  IF ~w1.cam.streaming /\ fault = "BeginAcquisition"
        THEN Raise(w1, "SpinnakerException")
        ELSE
        LET w2 == IF ~w1.cam.streaming THEN BeginAcquisition(w1) ELSE w1
            w3 == IF w2.cam.converted_image = NoImage THEN capture(w2, img, fault) ELSE w2
        IN  IF w3.exc # NoExc THEN w3
            ELSE IF fault = "write_placeholder" THEN Raise(w3, "OSError")
            ELSE add_frame_to_video(
                   [FileWrite(w3, VideoHeaderBytes(ZeroHeader))
                     EXCEPT !.cam.frames_recorded = 0,
                            !.cam.recording_video = TRUE,
                            !.cam.video_start_time = w3.cam.converted_image.ts],
                   "none")

\* start_recording from open() on, which records the frame it fetched itself
OpenSession_RecordsFetched(w, n, img, fault) ==
    IF fault = "open" THEN Raise(w, "OSError")
    ELSE
    LET w1 == [w EXCEPT !.fs = OpenWB(@, n),
                        !.cam.video_file = [name |-> n, pos |-> 0, closed |-> FALSE]]
    IN  IF ~w1.cam.streaming /\ fault = "BeginAcquisition"
        THEN Raise(w1, "SpinnakerException")
        ELSE
        LET w2 == IF ~w1.cam.streaming THEN BeginAcquisition(w1) ELSE w1
            w3 == IF w2.cam.converted_image = NoImage THEN capture(w2, img, fault) ELSE w2
        IN  IF w3.exc # NoExc THEN w3
            ELSE IF fault = "write_placeholder" THEN Raise(w3, "OSError")
            ELSE LET w4 == [FileWrite(w3, VideoHeaderBytes(ZeroHeader))
                              EXCEPT !.cam.frames_recorded = 0,
                                     !.cam.recording_video = TRUE,
                                     !.cam.video_start_time = w3.cam.converted_image.ts]
                 IN  IF w2.cam.converted_image = NoImage
                     THEN add_frame_to_video(w4, "none") ELSE w4

\* start_recording from open() on: n is the name to open
OpenSession(w, n, img, fault) ==
    IF fault = "open" THEN Raise(w, "OSError")
    ELSE
    LET w1 == [w EXCEPT !.fs = OpenWB(@, n),
                        !.cam.video_file = [name |-> n, pos |-> 0, closed |-> FALSE]]
    IN  IF ~w1.cam.streaming /\ fault = "BeginAcquisition"
        THEN Raise(w1, "SpinnakerException")
        ELSE
        LET w2 == IF ~w1.cam.streaming THEN BeginAcquisition(w1) ELSE w1
            w3 == IF w2.cam.converted_image = NoImage THEN capture(w2, img, fault) ELSE w2
        IN  IF w3.exc # NoExc THEN w3
            ELSE IF fault = "write_placeholder" THEN Raise(w3, "OSError")
            ELSE [FileWrite(w3, VideoHeaderBytes(ZeroHeader))
                     EXCEPT !.cam.frames_recorded = 0,
                            !.cam.recording_video = TRUE,
                            !.cam.video_start_time = w3.cam.converted_image.ts]

\* start_recording that goes on when the directory cannot be created
start_recording_IgnoresMakedirs(w, file_name, img, fault) ==
    IF w.cam.recording_video THEN w
    ELSE
    LET n == NormalizeName(file_name)
        path == DirName(n)
    IN  LET w1 == IF path # <<>> /\ fault # "makedirs"
                  THEN [w EXCEPT !.fs = makedirs(@, path)] ELSE w
        IN  IF path = <<>> THEN Raise(w1, "FileNotFoundError")
            ELSE IF fault = "listdir" THEN Raise(w1, "OSError")
            ELSE OpenSession(w1, ChooseName(w1.fs, n), img, fault)

\* start_recording without the test of __recording_video
start_recording_NoGuard(w, file_name, img, fault) ==
    LET n == NormalizeName(file_name)
        path == DirName(n)
    IN  IF path # <<>> /\ fault = "makedirs" THEN Raise(w, "OSError")
        ELSE
        LET w1 == IF path # <<>> THEN [w EXCEPT !.fs = makedirs(@, path)] ELSE w
        IN  IF path = <<>> THEN Raise(w1, "FileNotFoundError")
            ELSE IF fault = "listdir" THEN Raise(w1, "OSError")
            ELSE OpenSession(w1, ChooseName(w1.fs, n), img, fault)

\* BflyCamera.start_recording
start_recording(w, file_name, img, fault) ==
    IF w.cam.recording_video THEN w
    ELSE
    LET n == NormalizeName(file_name)
        path == DirName(n)
    IN  IF path # <<>> /\ fault = "makedirs" THEN Raise(w, "OSError")
        ELSE
        LET w1 == IF path # <<>> THEN [w EXCEPT !.fs = makedirs(@, path)] ELSE w
        IN  \* os.listdir('') raises FileNotFoundError
            IF path = <<>> THEN Raise(w1, "FileNotFoundError")
            ELSE IF fault = "listdir" THEN Raise(w1, "OSError")
            ELSE OpenSession(w1, ChooseName(w1.fs, n), img, fault)

\* a final header that counts every frame fetched so far
FinalHeader_CountsFetched(cam) ==
    [VideoID |-> VideoID,
     VideoVersion |-> VideoVersion,
     RecordedFrames |-> cam.converted_image.id,
     VideoHeaderSize |-> VideoHeaderSize,
     CalibrationData |-> 1,
     FrameData |-> 1]

\* the final TArVideoHeader built by stop_recording
FinalHeader(cam) ==
    [VideoID |-> VideoID,
     VideoVersion |-> VideoVersion,
     RecordedFrames |-> cam.frames_recorded,
     VideoHeaderSize |-> VideoHeaderSize,
     CalibrationData |-> 1,
     FrameData |-> 1]

\* stop_recording without the test of __recording_video: seek on no file raises
stop_recording_NoGuard(w, fault) ==
    IF ~w.cam.recording_video THEN Raise(w, "AttributeError")
    \* seek on a closed file
    ELSE IF w.cam.video_file.closed THEN Raise(w, "ValueError")
    ELSE IF fault = "seek" THEN Raise(w, "OSError")
    ELSE
    LET w1 == [w EXCEPT !.cam.video_file.pos = 0]
    IN  IF fault = "write_header" THEN Raise(w1, "OSError")
        ELSE IF fault = "close"
        THEN Raise([w1 EXCEPT !.cam.video_file.closed = TRUE], "OSError")
        ELSE [FileWrite(w1, VideoHeaderBytes(FinalHeader(w1.cam)))
                 EXCEPT !.cam.recording_video = FALSE,
                        !.cam.video_file = NoFile]

\* stop_recording that also resets the frame counter
stop_recording_ResetsCount(w, fault) ==
    IF ~w.cam.recording_video THEN w
    \* seek on a closed file
    ELSE IF w.cam.video_file.closed THEN Raise(w, "ValueError")
    ELSE IF fault = "seek" THEN Raise(w, "OSError")
    ELSE
    LET w1 == [w EXCEPT !.cam.video_file.pos = 0]
    IN  IF fault = "write_header" THEN Raise(w1, "OSError")
        ELSE IF fault = "close"
        THEN Raise([w1 EXCEPT !.cam.video_file.closed = TRUE], "OSError")
        ELSE [FileWrite(w1, VideoHeaderBytes(FinalHeader(w1.cam)))
                 EXCEPT !.cam.recording_video = FALSE,
                        !.cam.video_file = NoFile,
                        !.cam.frames_recorded = 0]

\* stop_recording without the seek(0): the header is written where the handle stands
stop_recording_NoSeek(w, fault) ==
    IF ~w.cam.recording_video THEN w
    \* seek on a closed file
    ELSE IF w.cam.video_file.closed THEN Raise(w, "ValueError")
    ELSE IF fault = "seek" THEN Raise(w, "OSError")
    ELSE
    LET w1 == w
    IN  IF fault = "write_header" THEN Raise(w1, "OSError")
        ELSE IF fault = "close"
        THEN Raise([w1 EXCEPT !.cam.video_file.closed = TRUE], "OSError")
        ELSE [FileWrite(w1, VideoHeaderBytes(FinalHeader(w1.cam)))
                 EXCEPT !.cam.recording_video = FALSE,
                        !.cam.video_file = NoFile]

\* BflyCamera.stop_recording
stop_recording(w, fault) ==
    IF ~w.cam.recording_video THEN w
    \* seek on a closed file
    ELSE IF w.cam.video_file.closed THEN Raise(w, "ValueError")
    ELSE IF fault = "seek" THEN Raise(w, "OSError")
    ELSE
    LET w1 == [w EXCEPT !.cam.video_file.pos = 0]
    IN  IF fault = "write_header" THEN Raise(w1, "OSError")
        \* close() whose flush fails: the buffered header is lost, the file is closed
        ELSE IF fault = "close"
        THEN Raise([w1 EXCEPT !.cam.video_file.closed = TRUE], "OSError")
        ELSE [FileWrite(w1, VideoHeaderBytes(FinalHeader(w1.cam)))
                 EXCEPT !.cam.recording_video = FALSE,
                        !.cam.video_file = NoFile]

\* close that finalizes a session still open
close_Finalizes(w) ==
    LET w0 == stop_recording(w, "none")
    IN  DeInit(IF w0.cam.streaming THEN EndAcquisition(w0) ELSE w0)

\* close that deinitializes before it ends acquisition
close_DeInitFirst(w) ==
    LET w1 == DeInit(w)
    IN  IF w.cam.streaming THEN EndAcquisition(w1) ELSE w1

\* close that also drops the session: no header is written, the handle and the
\* recording state are reset
close_DropsSession(w) ==
    DeInit(IF w.cam.streaming
           THEN EndAcquisition([w EXCEPT !.cam.recording_video = FALSE,
                                         !.cam.video_file = NoFile])
           ELSE w)

\* BflyCamera.close
close(w) ==
    DeInit(IF w.cam.streaming THEN EndAcquisition(w) ELSE w)

\* ------------------------------------------------------------------ inputs
\* file names the controller publishes under recName['fname']
NameInDir == <<"d", "/", "c", ".", "t", "w", "v">>
NameBare == <<"c", ".", "t", "w", "v">>
NameRaw == <<"d", "\\", "c">>
FileNames == {NameInDir, NameBare, NameRaw}

\* where acquireImages saves its image
StillName == <<"s">>

OldContent == <<Cell("Old", 0, 0)>>

\* the disk before the process starts: nothing, the target, the target and its alternate
InitialDisks ==
    {[files |-> <<>>, dirs |-> {}],
     [files |-> [n \in {NameInDir} |-> OldContent], dirs |-> {DirName(NameInDir)}],
     [files |-> [n \in {NameInDir, AlternateName(NameInDir)} |-> OldContent],
      dirs |-> {DirName(NameInDir)}]}

\* hardware timestamps (ns) a delivered frame may carry
TimeStamps == {k * TsStep : k \in 0..MaxTs}

ApiTimeStamps == {k * TsStep : k \in 0..ApiMaxTs}

\* ------------------------------------------------------------------- state
VARIABLES
    pc,         \* position of CameraProcess.run
    cam,        \* the BflyCamera object c
    fs,         \* the disk
    exc,        \* the exception caught by run's except clause, if any
    stopped,    \* mp.Event: stop the process
    recStart,   \* mp.Event: start recording
    recStop,    \* mp.Event: stop recording
    recName,    \* recName['fname']; NoName while the key is missing
    nFetched,   \* frames delivered by the driver so far
    nReq,       \* controller operations so far
    pending,    \* history: requests set by the controller and not yet serviced; after:
                \* the start request was set during a session, after a stop request
                \* set during that session
    sess,       \* history: the session opened last; asked: the controller has set
                \* stop-recording since it started and it is still active
    tick,       \* history: what the tick in progress has done
    scen        \* history: how many steps of the clip scenario the calls so far match

vars == <<pc, cam, fs, exc, stopped, recStart, recStop, recName, nFetched, nReq,
          pending, sess, tick, scen>>

NoSession ==
    [name |-> NoName, origin |-> NoImage, fetches |-> 0, finalized |-> FALSE,
     asked |-> FALSE]

NewTick == [stopped |-> FALSE, started |-> FALSE, noop |-> FALSE, fault |-> "none"]

\* history: the call that failed in this tick: the one told to fail, or listdir
\* when it raised by itself
FaultOf(r, fault) == IF r.exc = "FileNotFoundError" THEN "listdir" ELSE fault

\* a loop that swallows the exception of a call and goes on with the tick
AfterCall_Swallows(r, next) == next

\* a loop that ends run at once when a call raises, without the finally clause
AfterCall_SkipsTeardown(r, next) == IF r.exc # NoExc THEN "done" ELSE next

\* try ... except Exception ... finally: a call that raised leaves the loop
AfterCall(r, next) == IF r.exc # NoExc THEN "finally" ELSE next

World == [cam |-> cam, fs |-> fs, exc |-> NoExc]

Init ==
    /\ pc = "start"
    /\ cam = InitCam
    /\ fs \in InitialDisks
    /\ exc = NoExc
    /\ stopped = FALSE
    /\ recStart = FALSE
    /\ recStop = FALSE
    /\ recName = NoName
    /\ nFetched = 0
    /\ nReq = 0
    /\ pending = [start |-> FALSE, stop |-> FALSE, after |-> FALSE]
    /\ sess = NoSession
    /\ tick = NewTick
    /\ scen = 0

\* -------------------------------------------------------------- controller
\* Once the process has exited nobody reads the events or the dictionary, so
\* the controller's later operations are left out.
\* fileName['fname'] = n
CtlSetName ==
    /\ nReq < MaxRequests
    /\ pc # "done"
    /\ \E n \in FileNames : recName' = n
    /\ nReq' = nReq + 1
    /\ UNCHANGED <<pc, cam, fs, exc, stopped, recStart, recStop, nFetched, pending, sess, tick, scen>>

\* recStart.set()
CtlStart ==
    /\ nReq < MaxRequests
    /\ pc # "done"
    /\ recStart' = TRUE
    /\ pending' = [pending EXCEPT !.start = TRUE,
                                  !.after = sess.asked /\ cam.recording_video]
    /\ nReq' = nReq + 1
    /\ UNCHANGED <<pc, cam, fs, exc, stopped, recStop, recName, nFetched, sess, tick, scen>>

\* recStop.set()
CtlStop ==
    /\ nReq < MaxRequests
    /\ pc # "done"
    /\ recStop' = TRUE
    /\ pending' = [pending EXCEPT !.stop = TRUE]
    /\ sess' = [sess EXCEPT !.asked = cam.recording_video]
    /\ nReq' = nReq + 1
    /\ UNCHANGED <<pc, cam, fs, exc, stopped, recStart, recName, nFetched, tick, scen>>

\* stopper.set()
CtlKill ==
    /\ nReq < MaxRequests
    /\ pc # "done"
    /\ ~stopped
    /\ stopped' = TRUE
    /\ nReq' = nReq + 1
    /\ UNCHANGED <<pc, cam, fs, exc, recStart, recStop, recName, nFetched, pending, sess, tick, scen>>

\* ------------------------------------------------------- CameraProcess.run
\* c = Camera(self.cInd): InstrError when there is no camera at the index, and
\* then run ends at once; the handle obtained may or may not be initialized
ProcStart ==
    /\ pc = "start"
    /\ \E found \in BOOLEAN, inited \in BOOLEAN :
         IF found
         THEN /\ cam' = [InitCam EXCEPT !.initialized = inited]
              /\ pc' = "init"
              /\ exc' = exc
         ELSE /\ inited
              /\ exc' = "InstrError"
              /\ pc' = "done"
              /\ cam' = cam
    /\ UNCHANGED <<fs, stopped, recStart, recStop, recName, nFetched, nReq,
                   pending, sess, tick, scen>>

\* if not c.initialized: c.init(); c.configureAll(). An exception here, as in
\* BeginAcquisition below, is raised before the try: run ends and the camera
\* object is released, which runs __del__ as the finally clause does.
ProcInit ==
    /\ pc = "init"
    /\ \E fault \in {"none", "Init"} :
         /\ fault # "none" => ~cam.initialized
         /\ cam' = IF cam.initialized THEN cam ELSE [cam EXCEPT !.initialized = fault = "none"]
         /\ exc' = IF fault = "none" THEN exc ELSE "SpinnakerException"
         /\ pc' = IF fault = "none" THEN "begin" ELSE "finally"
    /\ UNCHANGED <<fs, stopped, recStart, recStop, recName, nFetched, nReq,
                   pending, sess, tick, scen>>

\* c.BeginAcquisition()
ProcBegin ==
    /\ pc = "begin"
    /\ \E fault \in {"none", "BeginAcquisition"} :
         /\ cam' = IF fault = "none" THEN BeginAcquisition(World).cam ELSE cam
         /\ exc' = IF fault = "none" THEN exc ELSE "SpinnakerException"
         /\ pc' = IF fault = "none" THEN "test" ELSE "finally"
    /\ UNCHANGED <<fs, stopped, recStart, recStop, recName, nFetched, nReq,
                   pending, sess, tick, scen>>

\* a loop test that does not look at the stop event
LoopTest_IgnoresStop ==
    /\ pc = "test"
    /\ pc' = "capture"
    /\ tick' = NewTick
    /\ UNCHANGED <<cam, fs, exc, stopped, recStart, recStop, recName, nFetched, nReq,
                   pending, sess, scen>>

\* a loop test that also clears the start-recording event
LoopTest_ClearsStart ==
    /\ pc = "test"
    /\ pc' = IF stopped THEN "finally" ELSE "capture"
    /\ tick' = NewTick
    /\ recStart' = FALSE
    /\ UNCHANGED <<cam, fs, exc, stopped, recStop, recName, nFetched, nReq,
                   pending, sess, scen>>

\* while not self.stopped.is_set()
LoopTest ==
    /\ pc = "test"
    /\ pc' = IF stopped THEN "finally" ELSE "capture"
    /\ tick' = NewTick
    /\ UNCHANGED <<cam, fs, exc, stopped, recStart, recStop, recName, nFetched, nReq,
                   pending, sess, scen>>

\* c.capture()
TickCapture ==
    /\ pc = "capture"
    /\ nFetched < MaxFetch
    /\ \E ts \in TimeStamps,
          fault \in {"none", "GetNextImage", "write_frame_header", "write_pixels"} :
         \E r \in {capture(World, [id |-> nFetched + 1, ts |-> ts,
                                    incomplete |-> FALSE], fault)} :
         LET got == fault # "GetNextImage"
         IN  /\ fault \in {"write_frame_header", "write_pixels"} => cam.recording_video
             /\ cam' = r.cam
             /\ fs' = r.fs
             /\ exc' = r.exc
             /\ nFetched' = IF got THEN nFetched + 1 ELSE nFetched
             /\ pc' = AfterCall(r, "checkStop")
             /\ tick' = [tick EXCEPT !.fault = FaultOf(r, fault)]
             /\ sess' = IF got /\ cam.recording_video
                        THEN [sess EXCEPT !.fetches = @ + 1] ELSE sess
    /\ UNCHANGED <<stopped, recStart, recStop, recName, nReq, pending, scen>>

\* if self.recStop.is_set(): c.stop_recording()
TickStop ==
    /\ pc = "checkStop"
    /\ IF recStop
       THEN \E fault \in {"none", "seek", "write_header", "close"} :
              \E r \in {stop_recording(World, fault)} :
              LET ended == cam.recording_video /\ r.exc = NoExc
              IN  /\ fault # "none" => cam.recording_video
                  /\ cam' = r.cam
                  /\ fs' = r.fs
                  /\ exc' = r.exc
                  /\ pc' = AfterCall(r, "checkStart")
                  /\ pending' = [pending EXCEPT !.stop = FALSE]
                  /\ tick' = [tick EXCEPT !.stopped = ended, !.fault = FaultOf(r, fault)]
                  /\ sess' = IF ended THEN [sess EXCEPT !.finalized = TRUE, !.asked = FALSE]
                             ELSE sess
       ELSE /\ pc' = "checkStart"
            /\ UNCHANGED <<cam, fs, exc, pending, tick, sess>>
    /\ UNCHANGED <<stopped, recStart, recStop, recName, nFetched, nReq, scen>>

\* if self.recStart.is_set(): fname = self.recName['fname']; c.start_recording(fname)
TickStart ==
    /\ pc = "checkStart"
    /\ IF ~recStart
       THEN /\ pc' = "test"
            /\ UNCHANGED <<cam, fs, exc, nFetched, pending, tick, sess>>
       ELSE IF recName = NoName
       THEN /\ exc' = "KeyError"
            /\ pc' = "finally"
            /\ pending' = [pending EXCEPT !.start = FALSE, !.after = FALSE]
            /\ tick' = [tick EXCEPT !.fault = "recName"]
            /\ UNCHANGED <<cam, fs, nFetched, sess>>
       ELSE \E fault \in {"none", "makedirs", "listdir", "open", "write_placeholder"} :
              \E r \in {start_recording(World, recName,
                           [id |-> nFetched + 1, ts |-> 0, incomplete |-> FALSE], fault)} :
              LET begun == ~cam.recording_video /\ r.exc = NoExc
              IN  /\ fault # "none" => ~cam.recording_video
                  /\ fault = "makedirs" => DirName(NormalizeName(recName)) # <<>>
                  /\ fault = "listdir" => DirName(NormalizeName(recName)) # <<>>
                  /\ cam' = r.cam
                  /\ fs' = r.fs
                  /\ exc' = r.exc
                  /\ nFetched' = IF r.cam.converted_image.id > nFetched
                                 THEN r.cam.converted_image.id ELSE nFetched
                  /\ pc' = AfterCall(r, "clearStart")
                  /\ pending' = [pending EXCEPT !.start = FALSE, !.after = FALSE]
                  /\ tick' = [tick EXCEPT !.started = begun,
                                           !.noop = cam.recording_video,
                                           !.fault = FaultOf(r, fault)]
                  /\ sess' = IF begun
                             THEN [name |-> r.cam.video_file.name,
                                   origin |-> r.cam.converted_image,
                                   fetches |-> 0,
                                   finalized |-> FALSE,
                                   asked |-> FALSE]
                             ELSE sess
    /\ UNCHANGED <<stopped, recStart, recStop, recName, nReq, scen>>

\* self.recStart.clear()
TickClearStart ==
    /\ pc = "clearStart"
    /\ recStart' = FALSE
    /\ pc' = "test"
    /\ UNCHANGED <<cam, fs, exc, stopped, recStop, recName, nFetched, nReq,
                   pending, sess, tick, scen>>

\* finally: del c, which runs BflyCamera.__del__ and so close()
Finally ==
    /\ pc = "finally"
    /\ cam' = close(World).cam
    /\ pc' = "done"
    /\ UNCHANGED <<fs, exc, stopped, recStart, recStop, recName, nFetched, nReq,
                   pending, sess, tick, scen>>

Next ==
    \/ CtlSetName
    \/ CtlStart
    \/ CtlStop
    \/ CtlKill
    \/ ProcStart
    \/ ProcInit
    \/ ProcBegin
    \/ LoopTest
    \/ TickCapture
    \/ TickStop
    \/ TickStart
    \/ TickClearStart
    \/ Finally

Spec == Init /\ [][Next]_vars

\* the steps of the process itself
LoopNext ==
    \/ ProcStart
    \/ ProcInit
    \/ ProcBegin
    \/ LoopTest
    \/ TickCapture
    \/ TickStop
    \/ TickStart
    \/ TickClearStart
    \/ Finally

Positions ==
    {"start", "init", "begin", "test", "capture", "checkStop", "checkStart", "clearStart",
     "finally", "done"}

\* the process has a statement to execute: it has not exited and is not inside
\* a fetch that never returns (no frame left to deliver)
LoopCanStep == pc # "done" /\ (pc = "capture" => nFetched < MaxFetch)

\* the process moves on from its position
LoopMoves == LoopCanStep /\ pc' \in (Positions \ {pc})

\* The process is scheduled: it does not stay for ever at a statement it can
\* execute. The steps that change pc are exactly the steps of LoopNext and
\* LoopNeverStuck says LoopNext is enabled exactly when LoopCanStep holds, so
\* this is WF_vars(LoopNext). The controller may stop issuing operations at
\* any time.
FairSpec == Spec /\ WF_pc(LoopMoves)

LoopNeverStuck == LoopCanStep <=> ENABLED LoopNext

\* ------------------------------------------- the methods called directly
\* A caller that holds an initialized BflyCamera and calls BeginAcquisition,
\* capture, start_recording and stop_recording in any order, seeing their
\* exceptions itself (exc is what the last call raised).
\* the clip scenario: record to a bare name, feed three frames, stop
Scenario ==
    <<[op |-> "start_recording", name |-> NameBare, ts |-> -1],
      [op |-> "capture", name |-> NoName, ts |-> 0],
      [op |-> "capture", name |-> NoName, ts |-> TsStep],
      [op |-> "capture", name |-> NoName, ts |-> 2 * TsStep],
      [op |-> "stop_recording", name |-> NoName, ts |-> -1]>>

\* history: the calls so far are the first scen steps of the scenario, none told to fail
Advance(call, fault) ==
    IF scen >= 0 /\ scen < Len(Scenario) /\ fault = "none" /\ Scenario[scen + 1] = call
    THEN scen + 1 ELSE -1

InitApi ==
    /\ pc = "api"
    /\ cam = [InitCam EXCEPT !.initialized = TRUE]
    /\ fs \in InitialDisks
    /\ exc = NoExc
    /\ stopped = FALSE
    /\ recStart = FALSE
    /\ recStop = FALSE
    /\ recName = NoName
    /\ nFetched = 0
    /\ nReq = 0
    /\ pending = [start |-> FALSE, stop |-> FALSE, after |-> FALSE]
    /\ sess = NoSession
    /\ tick = NewTick
    /\ scen = 0

\* c.BeginAcquisition()
ApiBeginAcquisition ==
    /\ ~cam.streaming
    /\ cam' = BeginAcquisition(World).cam
    /\ exc' = NoExc
    /\ UNCHANGED <<pc, fs, stopped, recStart, recStop, recName, nFetched, nReq,
                   pending, sess, tick, scen>>

\* c.capture(); the driver delivers nothing while the camera is not streaming
ApiCapture ==
    /\ nFetched < MaxFetch
    /\ \E ts \in ApiTimeStamps, inc \in BOOLEAN,
          fault \in {"none", "GetNextImage", "write_frame_header", "write_pixels"} :
         LET got == fault # "GetNextImage"
         IN  /\ fault \in {"write_frame_header", "write_pixels"} => cam.recording_video
             /\ ~cam.streaming => fault = "GetNextImage"
             /\ ~got => ts = 0 /\ ~inc
             \* the hardware clock does not run backwards
             /\ ts >= cam.converted_image.ts
             /\ \E r \in {capture(World, [id |-> nFetched + 1, ts |-> ts,
                                          incomplete |-> inc], fault)} :
                 /\ cam' = r.cam
                 /\ fs' = r.fs
                 /\ exc' = r.exc
                 /\ nFetched' = IF got THEN nFetched + 1 ELSE nFetched
                 /\ scen' = Advance([op |-> "capture", name |-> NoName,
                                     ts |-> IF got THEN ts ELSE -1], fault)
    /\ UNCHANGED <<pc, stopped, recStart, recStop, recName, nReq, pending, sess, tick>>

\* c.start_recording(n)
ApiStartRecording ==
    /\ \E n \in FileNames, ts \in ApiTimeStamps,
          fault \in {"none", "makedirs", "listdir", "open", "BeginAcquisition",
                     "GetNextImage", "write_placeholder"} :
             /\ fault # "none" => ~cam.recording_video
             /\ fault \in {"makedirs", "listdir"} => DirName(NormalizeName(n)) # <<>>
             /\ fault = "BeginAcquisition" => ~cam.streaming
             /\ fault = "GetNextImage" => cam.converted_image = NoImage
             \* the frame delivered matters only when start_recording fetches one
             /\ (cam.recording_video \/ cam.converted_image # NoImage) => ts = 0
             /\ \E r \in {start_recording(World, n, [id |-> nFetched + 1, ts |-> ts,
                                                   incomplete |-> FALSE], fault)} :
                 /\ cam' = r.cam
                 /\ fs' = r.fs
                 /\ exc' = r.exc
                 /\ nFetched' = IF r.cam.converted_image.id > nFetched
                                THEN r.cam.converted_image.id ELSE nFetched
                 /\ scen' = Advance([op |-> "start_recording", name |-> n, ts |-> -1], fault)
    /\ UNCHANGED <<pc, stopped, recStart, recStop, recName, nReq, pending, sess, tick>>

\* c.stop_recording()
ApiStopRecording ==
    /\ \E fault \in {"none", "seek", "write_header", "close"} :
             /\ fault # "none" => cam.recording_video
             /\ \E r \in {stop_recording(World, fault)} :
                 /\ cam' = r.cam
                 /\ fs' = r.fs
                 /\ exc' = r.exc
                 /\ scen' = Advance([op |-> "stop_recording", name |-> NoName, ts |-> -1], fault)
    /\ UNCHANGED <<pc, stopped, recStart, recStop, recName, nFetched, nReq, pending, sess, tick>>

\* c.acquireImages(1, StillName), called while the camera is not streaming
ApiAcquireImages ==
    /\ ~cam.streaming
    /\ nFetched < MaxFetch
    /\ \E inc \in BOOLEAN :
         \E r \in {acquireImages(World, StillName,
                                  [id |-> nFetched + 1, ts |-> cam.converted_image.ts,
                                   incomplete |-> inc])} :
             /\ cam' = r.cam
             /\ fs' = r.fs
             /\ exc' = r.exc
    /\ nFetched' = nFetched + 1
    /\ scen' = -1
    /\ UNCHANGED <<pc, stopped, recStart, recStop, recName, nReq, pending, sess, tick>>

NextApi ==
    \/ ApiBeginAcquisition
    \/ ApiCapture
    \/ ApiStartRecording
    \/ ApiStopRecording
    \/ ApiAcquireImages

SpecApi == InitApi /\ [][NextApi]_vars

\* ------------------------------------------------------- reading the files
HeaderOf(c) == SubSeq(c, 1, VideoHeaderSize)

BodyOf(c) == SubSeq(c, VideoHeaderSize + 1, Len(c))

RecordSize == Len(FrameHeaderBytes(0, 0)) + Len(PixelBytes(NoImage))

\* the body is a whole number of frame records, each a frame header and its pixels
WholeRecords(c) ==
    /\ Len(c) >= VideoHeaderSize
    /\ (Len(c) - VideoHeaderSize) % RecordSize = 0
    /\ \A i \in 1..Len(BodyOf(c)) :
         BodyOf(c)[i].f = <<"FrameNumber", "FrameTime", "Pixels">>[((i - 1) % RecordSize) + 1]

NumRecords(c) == (Len(c) - VideoHeaderSize) \div RecordSize

FieldOf(c, f) == c[CHOOSE i \in 1..VideoHeaderSize : c[i].f = f].v

IsFrameNumber(x) == x.f = "FrameNumber"

FrameNumbersIn(c) == SelectSeq(BodyOf(c), IsFrameNumber)

\* the k-th (1-based) complete record of the body
RecordAt(c, k) ==
    [num |-> BodyOf(c)[(k - 1) * RecordSize + 1].v,
     time |-> BodyOf(c)[(k - 1) * RecordSize + 2].v,
     pix |-> BodyOf(c)[(k - 1) * RecordSize + 3]]

CompleteRecords(c) == (Len(c) - VideoHeaderSize) \div RecordSize

SessionFile == fs.files[sess.name]

HasSessionFile == sess.name # NoName /\ Exists(fs, sess.name)

\* a step of the loop out of position p
LoopStepFrom(p) == pc = p /\ pc' # p

\* ------------------------------------------------------------------ claims
\* C1: a session started by a serviced start-recording and ended by a serviced
\* stop-recording, during which N ticks fetched a frame, leaves a file of
\* exactly N frame records after the header, whose header has RecordedFrames = N
\* (read when the stop has just been serviced).
C1_FinalizedFileCountsFetches ==
    (pc = "checkStart" /\ tick.stopped) =>
        /\ sess.finalized
        /\ HasSessionFile
        /\ WholeRecords(SessionFile)
        /\ NumRecords(SessionFile) = sess.fetches
        /\ FieldOf(SessionFile, "RecordedFrames") = sess.fetches

C1_Witness ==
    /\ pc = "checkStart"
    /\ tick.stopped
    /\ sess.fetches >= 2
    /\ NumRecords(SessionFile) = sess.fetches
    /\ FieldOf(SessionFile, "RecordedFrames") = sess.fetches

\* C2: in every state of a session the FrameNumber fields written so far to its
\* file are, in file order, 0, 1, ..., k-1.
C2_FrameNumbersSequential ==
    HasSessionFile =>
        \A i \in 1..Len(FrameNumbersIn(SessionFile)) :
            FrameNumbersIn(SessionFile)[i].v = i - 1

C2_Witness ==
    /\ HasSessionFile
    /\ cam.recording_video
    /\ Len(FrameNumbersIn(SessionFile)) >= 2

\* C3 as claimed: the first frame record of a session has frameTime 0.
C3_FirstFrameTimeZero ==
    (HasSessionFile /\ CompleteRecords(SessionFile) >= 1) =>
        RecordAt(SessionFile, 1).time = 0

\* C3 amended: every frame record has frameTime = (its frame's timestamp - the
\* timestamp of the frame that was current when the session started), in units
\* of 1e-9 s; the first record's frameTime is 0 only when those two timestamps
\* are equal; frameTimes are non-decreasing in file order when the timestamps
\* of the origin frame and the recorded frames are.
C3_FrameTimeFromOrigin ==
    HasSessionFile =>
        LET c == SessionFile
            n == CompleteRecords(c)
            tsOf(k) == IF k = 0 THEN sess.origin.ts ELSE RecordAt(c, k).pix.ts
        IN  /\ \A k \in 1..n : RecordAt(c, k).time = tsOf(k) - sess.origin.ts
            /\ n >= 1 => (RecordAt(c, 1).time = 0 <=> tsOf(1) = sess.origin.ts)
            /\ (\A k \in 1..n : tsOf(k - 1) <= tsOf(k)) =>
                   /\ \A k \in 1..n : RecordAt(c, k).time >= 0
                   /\ \A k \in 2..n : RecordAt(c, k - 1).time <= RecordAt(c, k).time

C3_Witness ==
    /\ HasSessionFile
    /\ CompleteRecords(SessionFile) >= 2
    /\ RecordAt(SessionFile, 1).time > 0
    /\ RecordAt(SessionFile, 2).time >= RecordAt(SessionFile, 1).time

\* C4: a flag the loop services is cleared in that tick, so a request set once
\* by the controller is serviced in at most one tick: every servicing of a flag
\* answers a request the controller set since the flag was last serviced.
C4_ServicedOncePerRequest ==
    [][/\ (LoopStepFrom("checkStop") /\ recStop) => pending.stop
       /\ (LoopStepFrom("checkStart") /\ recStart) => pending.start]_vars

\* C5: servicing start-recording while a session is active opens no file and
\* changes neither the handle, the frame counter, the start timestamp nor the
\* recording state; only the start-recording flag is cleared.
C5_StartWhileRecordingNoOp ==
    [][/\ (LoopStepFrom("checkStart") /\ recStart /\ cam.recording_video) =>
            /\ cam' = cam
            /\ fs' = fs
            /\ exc' = exc
            /\ pc' = "clearStart"
            /\ UNCHANGED <<recStart, recStop, stopped, recName>>
       /\ (LoopStepFrom("clearStart") /\ tick.noop) =>
            /\ ~recStart'
            /\ cam' = cam
            /\ fs' = fs
            /\ pc' = "test"
            /\ UNCHANGED <<recStop, stopped, recName>>]_vars

C5_Witness ==
    /\ pc = "test"
    /\ tick.noop
    /\ cam.recording_video
    /\ cam.frames_recorded >= 1
    /\ ~recStart

\* C6: between operations of the camera object, also after one raised, a file
\* handle is held open if and only if recording is active.
C6_HandleOpenIffRecording ==
    isRecording(cam) <=> ~fileClosed(cam)

\* C7: when stop-streaming ends the loop while a session is Recording, the
\* header is never rewritten: the file exists, holds the frame records written
\* so far, and its header is still the placeholder with RecordedFrames = 0.
C7_KilledSessionKeepsPlaceholder ==
    (pc \in {"finally", "done"} /\ exc = NoExc /\ sess.name # NoName /\ ~sess.finalized) =>
        /\ Exists(fs, sess.name)
        /\ cam.recording_video
        /\ HeaderOf(SessionFile) = VideoHeaderBytes(ZeroHeader)
        /\ FieldOf(SessionFile, "RecordedFrames") = 0
        /\ WholeRecords(SessionFile)
        /\ NumRecords(SessionFile) = sess.fetches

C7_Witness ==
    /\ pc = "done"
    /\ exc = NoExc
    /\ cam.recording_video
    /\ sess.fetches >= 1
    /\ NumRecords(SessionFile) = sess.fetches
    /\ FieldOf(SessionFile, "RecordedFrames") = 0

\* C8: in a tick the fetch comes first, then stop-recording is serviced, then
\* start-recording; so when a tick ends one session and begins the next, the
\* frame fetched in that tick is the last record of the ended session and is
\* not in the file of the new one.
C8_TickOrder ==
    /\ pc \in {"start", "capture", "checkStop"} =>
           (~tick.stopped /\ ~tick.started /\ ~tick.noop)
    /\ pc = "checkStart" => (~tick.started /\ ~tick.noop)
    /\ (pc = "checkStart" /\ tick.stopped) =>
           /\ HasSessionFile
           /\ Last(SessionFile) = PixelBytes(cam.converted_image)[1]
    /\ (pc = "clearStart" /\ tick.started) =>
           /\ SessionFile = VideoHeaderBytes(ZeroHeader)
           /\ \A i \in 1..Len(SessionFile) : SessionFile[i].f # "Pixels"

C8_Witness ==
    /\ pc = "clearStart"
    /\ tick.stopped
    /\ tick.started
    /\ cam.recording_video
    /\ SessionFile = VideoHeaderBytes(ZeroHeader)

\* C9: the header stop_recording writes has the length of the placeholder and
\* goes to offset 0: finalizing changes only the header cells, and every frame
\* record stays as it was, at the same offset.
C9_FinalizeRewritesHeaderOnly ==
    [][(LoopStepFrom("checkStop") /\ recStop /\ cam.recording_video /\ exc' = NoExc) =>
          LET n == cam.video_file.name
              old == fs.files[n]
              new == fs'.files[n]
          IN  /\ Len(VideoHeaderBytes(FinalHeader(cam))) = Len(VideoHeaderBytes(ZeroHeader))
              /\ HeaderOf(old) = VideoHeaderBytes(ZeroHeader)
              /\ Len(new) = Len(old)
              /\ \A i \in 1..Len(old) : i > VideoHeaderSize => new[i] = old[i]
              /\ HeaderOf(new) = VideoHeaderBytes(FinalHeader(cam))
              /\ DOMAIN fs'.files = DOMAIN fs.files
              /\ \A m \in DOMAIN fs.files : m # n => fs'.files[m] = fs.files[m]]_vars

C9_Witness ==
    /\ pc = "checkStart"
    /\ tick.stopped
    /\ HasSessionFile
    /\ NumRecords(SessionFile) >= 1
    /\ FieldOf(SessionFile, "VideoID") = VideoID

\* the name with "1" put immediately before the ".twv" extension
WithOneBeforeExtension(n) == SubSeq(n, 1, Len(n) - Len(TWV)) \o <<"1">> \o TWV

\* C10: start_recording while Idle with a target whose file exists writes the
\* session to the name with "1" before ".twv"; the existing target file is
\* neither opened, truncated nor modified.
C10_CollisionUsesAlternate ==
    [][(/\ LoopStepFrom("checkStart")
        /\ recStart
        /\ ~cam.recording_video
        /\ cam'.recording_video
        /\ Exists(fs, NormalizeName(recName))) =>
          LET target == NormalizeName(recName)
          IN  /\ cam'.video_file.name = WithOneBeforeExtension(target)
              /\ cam'.video_file.name # target
              /\ Exists(fs', target)
              /\ fs'.files[target] = fs.files[target]
              /\ fs'.files[cam'.video_file.name] = VideoHeaderBytes(ZeroHeader)]_vars

C10_Witness ==
    /\ cam.recording_video
    /\ cam.video_file.name = WithOneBeforeExtension(NameInDir)
    /\ Exists(fs, NameInDir)
    /\ fs.files[NameInDir] = OldContent
    /\ recName = NameRaw

\* C11: starting a recording to the bare name "c.twv", feeding three frames
\* with timestamps 0, TsStep and 2*TsStep, then stopping, leaves a file of that
\* name whose header has RecordedFrames = 3 and whose three frame records have
\* FrameNumber 0, 1, 2 and FrameTime 0, TsStep, 2*TsStep.
C11_ClipScenario ==
    scen = Len(Scenario) =>
        /\ Exists(fs, NameBare)
        /\ WholeRecords(fs.files[NameBare])
        /\ FieldOf(fs.files[NameBare], "RecordedFrames") = 3
        /\ NumRecords(fs.files[NameBare]) = 3
        /\ \A k \in 1..3 :
             /\ RecordAt(fs.files[NameBare], k).num = k - 1
             /\ RecordAt(fs.files[NameBare], k).time = (k - 1) * TsStep

\* C12: while a session is active every tick appends exactly one frame record
\* and that record holds the frame fetched in that same tick, so the records of
\* a session hold consecutive fetched frames, none twice and none left out; no
\* other step of an active session changes the length of the file.
C12_RecordsAreConsecutiveFetches ==
    HasSessionFile =>
        \A k \in 1..CompleteRecords(SessionFile) :
            RecordAt(SessionFile, k).pix.v = sess.origin.id + k

C12_TickAppendsFetchedFrame ==
    /\ (LoopStepFrom("capture") /\ cam.recording_video /\ exc' = NoExc) =>
          /\ nFetched' = nFetched + 1
          /\ cam'.converted_image.id = nFetched'
          /\ fs'.files[cam.video_file.name] =
                fs.files[cam.video_file.name]
                    \o FrameHeaderBytes(cam.frames_recorded,
                           FrameTime(cam'.converted_image.ts, cam.video_start_time))
                    \o PixelBytes(cam'.converted_image)
    /\ (cam.recording_video /\ cam'.recording_video /\ ~LoopStepFrom("capture")) =>
          Len(fs'.files[cam.video_file.name]) = Len(fs.files[cam.video_file.name])

C12_OneRecordPerRecordingTick ==
    [](C12_RecordsAreConsecutiveFetches) /\ [][C12_TickAppendsFetchedFrame]_vars

C12_Witness ==
    /\ pc = "checkStop"
    /\ cam.recording_video
    /\ sess.fetches = 2
    /\ CompleteRecords(SessionFile) = 2
    /\ RecordAt(SessionFile, 2).pix.v = cam.converted_image.id
    /\ RecordAt(SessionFile, 1).pix.v = cam.converted_image.id - 1

\* C13: every capture() that returns replaces the current frame by the frame
\* just fetched, recording or not; while recording is active it also appends
\* that frame and counts it, and while recording is inactive it changes nothing
\* else: not the frame counter, not any file.
C13_CaptureStep ==
    (LoopStepFrom("capture") /\ exc' = NoExc) =>
        /\ cam'.converted_image.id = nFetched + 1
        /\ cam'.converted_image # cam.converted_image
        /\ ~cam.recording_video =>
              /\ fs' = fs
              /\ cam' = [cam EXCEPT !.converted_image = cam'.converted_image]
        /\ cam.recording_video =>
              /\ cam'.frames_recorded = cam.frames_recorded + 1
              /\ RecordAt(fs'.files[cam.video_file.name], cam'.frames_recorded).pix
                    = PixelBytes(cam'.converted_image)[1]

C13_CaptureReplacesCurrentFrame == [][C13_CaptureStep]_vars

C13_Witness ==
    /\ pc = "checkStop"
    /\ ~cam.recording_video
    /\ cam.frames_recorded = 1
    /\ cam.converted_image.id = nFetched
    /\ nFetched = 3
    /\ sess.finalized
    /\ NumRecords(SessionFile) = 1

\* C14: within a session the frame counter never decreases and grows by
\* exactly 1 with each record appended; the step that ends the session keeps
\* it, and so does every later step until another session is started (which
\* sets it to 0).
C14_CounterStep ==
    /\ (cam.recording_video /\ cam'.recording_video) =>
          /\ cam'.frames_recorded \in {cam.frames_recorded, cam.frames_recorded + 1}
          /\ cam'.frames_recorded = cam.frames_recorded + 1
                <=> CompleteRecords(fs'.files[cam.video_file.name])
                      = CompleteRecords(fs.files[cam.video_file.name]) + 1
    /\ ~cam'.recording_video => cam'.frames_recorded = cam.frames_recorded
    /\ (~cam.recording_video /\ cam'.recording_video) => cam'.frames_recorded = 0

C14_CounterMonotoneThenKept == [][C14_CounterStep]_vars

C14_Witness ==
    /\ pc = "checkStart"
    /\ ~tick.stopped
    /\ sess.finalized
    /\ ~cam.recording_video
    /\ cam.frames_recorded = 1
    /\ nFetched = 3

\* C15: servicing stop-recording while no session is active does nothing: no
\* file is opened, written or closed, the camera object (frame counter, current
\* frame, idle state) is unchanged, nothing is raised and the tick goes on.
C15_IdleStopStep ==
    (LoopStepFrom("checkStop") /\ recStop /\ ~cam.recording_video) =>
        /\ cam' = cam
        /\ fs' = fs
        /\ exc' = NoExc
        /\ pc' = "checkStart"

C15_IdleStopIsNoOp == [][C15_IdleStopStep]_vars

C15_Witness ==
    /\ pc = "checkStart"
    /\ recStop
    /\ ~pending.stop
    /\ ~tick.stopped
    /\ ~cam.recording_video
    /\ cam.frames_recorded = 1
    /\ cam.converted_image.id = 3
    /\ exc = NoExc

\* C16: when the seek or the header write fails while stop_recording
\* finalizes a session, the session is closed all the same: afterwards the file
\* is closed, no handle is held and recording is inactive.
C16_FailedFinalizeStillCloses ==
    tick.fault \in {"seek", "write_header"} =>
        /\ ~cam.recording_video
        /\ cam.video_file = NoFile
        /\ fileClosed(cam)

\* C17: when the directory of the output file cannot be created, the
\* start_recording called while idle raises to its caller and starts nothing:
\* no file is opened or created, the camera object (idle state, frame counter,
\* session start timestamp) is unchanged, in that step and for good.
C17_MakedirsFailureStep ==
    (LoopStepFrom("checkStart") /\ tick'.fault = "makedirs") =>
        /\ ~cam.recording_video
        /\ exc' = "OSError"
        /\ pc' = "finally"
        /\ cam' = cam
        /\ fs'.files = fs.files

C17_MakedirsFailureStartsNothing ==
    /\ [](tick.fault = "makedirs" => ~cam.recording_video /\ fileClosed(cam))
    /\ [][C17_MakedirsFailureStep]_vars

C17_Witness ==
    /\ pc = "finally"
    /\ tick.fault = "makedirs"
    /\ exc = "OSError"
    /\ ~cam.recording_video
    /\ cam.frames_recorded = 1
    /\ cam.video_start_time = TsStep
    /\ sess.finalized

\* C18: when the frame fetch of a tick raises, the loop is over: the fetch is
\* not retried, no later tick runs, no control flag is serviced (the camera
\* object, the files and the set flags stay as they are), and the one step
\* left to the process tears the camera down.
C18_AfterFetchError ==
    tick.fault = "GetNextImage" =>
        /\ pc \in {"finally", "done"}
        /\ exc = "SpinnakerException"
        /\ pc = "done" => ~cam.streaming /\ ~cam.initialized

C18_AfterFetchErrorStep ==
    tick.fault = "GetNextImage" =>
        /\ nFetched' = nFetched
        /\ fs' = fs
        /\ recStart => recStart'
        /\ recStop => recStop'
        /\ pending.start => pending'.start
        /\ pending.stop => pending'.stop
        /\ cam'.recording_video = cam.recording_video
        /\ cam'.video_file = cam.video_file
        /\ cam'.frames_recorded = cam.frames_recorded
        /\ pc' # pc => pc' = "done" /\ ~cam'.streaming /\ ~cam'.initialized

C18_FetchErrorEndsLoop ==
    [](C18_AfterFetchError) /\ [][C18_AfterFetchErrorStep]_vars

C18_Witness ==
    /\ pc = "done"
    /\ tick.fault = "GetNextImage"
    /\ exc = "SpinnakerException"
    /\ ~cam.streaming
    /\ cam.recording_video
    /\ recStop
    /\ pending.stop
    /\ nFetched = 2

\* C19: a start_recording called while idle that returns normally leaves the
\* camera recording with frame counter 0, the file it opened holding the
\* placeholder header and nothing else, and the session start timestamp equal
\* to the timestamp of the current frame; it fetches a frame only when there was
\* no current frame, and begins acquisition only when the camera was not
\* streaming.
C19_StartStep ==
    (~cam.recording_video /\ cam'.recording_video) =>
        /\ exc' = NoExc
        /\ cam'.frames_recorded = 0
        /\ ~fileClosed(cam')
        /\ fs'.files[cam'.video_file.name] = VideoHeaderBytes(ZeroHeader)
        /\ cam'.video_start_time = cam'.converted_image.ts
        /\ IF cam.converted_image = NoImage
           THEN nFetched' = nFetched + 1 /\ cam'.converted_image.id = nFetched'
           ELSE nFetched' = nFetched /\ cam'.converted_image = cam.converted_image
        /\ cam'.streaming
        /\ cam'.begun = IF cam.streaming THEN cam.begun ELSE cam.begun + 1

C19_StartFromIdle == [][C19_StartStep]_vars

C19_Witness ==
    /\ pc = "api"
    /\ cam.recording_video
    /\ cam.frames_recorded = 0
    /\ cam.begun = 1
    /\ nFetched = 1
    /\ cam.converted_image = [id |-> 1, ts |-> TsStep, incomplete |-> FALSE]
    /\ cam.video_start_time = TsStep
    /\ fs.files[cam.video_file.name] = VideoHeaderBytes(ZeroHeader)

\* C20: the stop event is looked at only by the loop test. Once it is set it
\* stays set; the tick in progress goes on as it would have (its fetch, then the
\* stop and start servicing); the loop test then leaves the loop, so no later
\* tick fetches a frame; and once the fetch in progress, if any, has returned,
\* the process eventually ends acquisition, deinitializes the camera and exits.
C20_StoppedStep ==
    stopped =>
        /\ stopped'
        /\ (pc = "test" /\ pc' # pc) => pc' = "finally"
        /\ pc # "capture" => pc' # "capture"
        /\ pc # "capture" => nFetched' = nFetched
        /\ (pc = "capture" /\ pc' # pc /\ exc' = NoExc) =>
              pc' = "checkStop" /\ nFetched' = nFetched + 1
        /\ (pc = "checkStop" /\ pc' # pc /\ exc' = NoExc) =>
              /\ pc' = "checkStart"
              /\ (recStop /\ cam.recording_video) => ~cam'.recording_video
        /\ (pc = "checkStart" /\ pc' # pc /\ exc' = NoExc) =>
              /\ pc' = IF recStart THEN "clearStart" ELSE "test"
              /\ (recStart /\ NormalizeName(recName) # NameBare) => cam'.recording_video
        /\ (pc = "clearStart" /\ pc' # pc) => pc' = "test"

C20_CooperativeCancellation ==
    /\ [](LoopNeverStuck)
    /\ [][C20_StoppedStep]_vars
    /\ (stopped /\ pc # "capture") ~> (pc = "done" /\ ~cam.streaming /\ ~cam.initialized)

C20_Witness ==
    /\ pc = "done"
    /\ stopped
    /\ exc = NoExc
    /\ tick = NewTick
    /\ ~cam.streaming
    /\ ~cam.initialized
    /\ cam.recording_video
    /\ nFetched = 2

\* the loop has stopped ticking: stop-streaming is set, a call has raised, or
\* run is past the loop
LoopOver == stopped \/ exc # NoExc \/ pc \in {"finally", "done"}

\* C21: a start-recording request set while Idle, and a stop-recording request
\* set while Recording, stays pending until a tick services it and is never
\* lost. The events are cleared by the loop only: recStart by the clear that
\* follows a start_recording that returned, recStop never; the tick that reads
\* recStart in Idle (recStop in Recording) and raises nothing leaves the state
\* Recording (Idle with the file finalized). While the loop keeps ticking (the
\* driver still delivers a frame, nothing raises, stop-streaming is not set)
\* the request is eventually serviced.
C21_RequestStep ==
    /\ (recStart /\ ~recStart') => (pc = "clearStart" /\ cam.recording_video)
    /\ recStop => recStop'
    /\ (recStart /\ ~cam.recording_video /\ LoopStepFrom("checkStart") /\ exc' = NoExc) =>
          recStart' /\ cam'.recording_video /\ tick'.started
    /\ (recStop /\ cam.recording_video /\ LoopStepFrom("checkStop") /\ exc' = NoExc) =>
          /\ ~cam'.recording_video
          /\ fileClosed(cam')
          /\ sess'.finalized
          /\ FieldOf(fs'.files[sess.name], "RecordedFrames") = sess.fetches

C21_RequestsAreServiced ==
    /\ [][C21_RequestStep]_vars
    /\ (recStart /\ ~cam.recording_video /\ nFetched < MaxFetch) ~>
          (cam.recording_video \/ LoopOver)
    /\ (recStop /\ cam.recording_video /\ nFetched < MaxFetch) ~>
          ((~cam.recording_video /\ sess.finalized) \/ LoopOver)

C21_Witness ==
    /\ pc = "checkStart"
    /\ tick.stopped
    /\ sess.finalized
    /\ sess.fetches = 1
    /\ ~cam.recording_video
    /\ ~stopped
    /\ exc = NoExc

\* the positions of run inside the capture loop
TickPositions == {"test", "capture", "checkStop", "checkStart", "clearStart"}

\* C22: in every run the camera is obtained, initialized and configured (only
\* if not already initialized), acquisition is begun, the ticks run, acquisition
\* is ended and the camera is deinitialized, in this order. EndAcquisition and
\* then DeInit happen on every exit from the loop, by stop-streaming or by an
\* exception, and a frame is fetched only between BeginAcquisition and
\* EndAcquisition.
C22_LifecycleState ==
    /\ pc = "start" => cam = InitCam
    /\ pc \in {"start", "init", "begin"} => cam.life = <<>> /\ nFetched = 0 /\ ~cam.streaming
    /\ pc = "begin" => cam.initialized
    /\ pc \in TickPositions =>
          cam.initialized /\ cam.streaming /\ cam.life = <<"BeginAcquisition">>
    /\ pc = "finally" =>
          \/ cam.life = <<"BeginAcquisition">> /\ cam.streaming /\ cam.initialized
          \/ cam.life = <<>> /\ ~cam.streaming /\ nFetched = 0 /\ exc = "SpinnakerException"
    /\ pc = "done" =>
          \/ cam.life = <<"BeginAcquisition", "EndAcquisition", "DeInit">>
          \/ cam.life = <<"DeInit">> /\ nFetched = 0 /\ exc = "SpinnakerException"
          \/ cam = InitCam /\ nFetched = 0 /\ exc = "InstrError"
    /\ pc = "done" => ~cam.streaming /\ ~cam.initialized

C22_LifecycleStep ==
    /\ (LoopStepFrom("init") /\ cam.initialized) => (cam' = cam /\ pc' = "begin")
    /\ (LoopStepFrom("init") /\ ~cam.initialized /\ exc' = NoExc) => cam'.initialized
    /\ nFetched' # nFetched =>
          /\ pc = "capture"
          /\ cam.streaming /\ cam'.streaming
          /\ cam.life = <<"BeginAcquisition">> /\ cam'.life = cam.life
    /\ (pc \in TickPositions /\ pc' \notin TickPositions) =>
          pc' = "finally" /\ (stopped \/ exc' # NoExc) /\ cam'.life = cam.life
    /\ LoopStepFrom("finally") => pc' = "done"

C22_LifecycleOrder == [](C22_LifecycleState) /\ [][C22_LifecycleStep]_vars

C22_Witness ==
    /\ pc = "done"
    /\ cam.life = <<"BeginAcquisition", "EndAcquisition", "DeInit">>
    /\ exc = "OSError"
    /\ ~stopped
    /\ nFetched = 2

\* C23: a recording session ends only in a tick in which a stop-recording
\* request that the controller issued after the session started is pending;
\* until then the session stays active, also when an earlier session of the
\* same run was stopped before.
C23_EndsOnlyOnOwnStop ==
    [][(cam.recording_video /\ ~cam'.recording_video) => (pending.stop /\ sess.asked)]_vars

\* C24: when the controller sets stop-recording during a session and then
\* start-recording, whatever the interleaving with the loop, the old session is
\* finalized and a new one becomes active: the tick that services this start
\* request finds the old session already finalized and does not consume the
\* request as a no-op against it.
C24_RestartNotConsumedAsNoOp ==
    [][(LoopStepFrom("checkStart") /\ recStart /\ pending.after /\ exc' = NoExc) =>
          (~tick'.noop /\ cam'.recording_video /\ sess'.name # NoName /\ ~sess'.finalized)]_vars

\* the content of the file the camera holds open
OpenFile(f, c) == f.files[c.video_file.name]

\* C25: the frame that is current when start_recording runs (the one fetched
\* before, or the one start_recording fetches itself when there is none) gives
\* the session its time origin and is not written to the file: the session
\* starts with a file of the header alone, every frame record written later
\* holds a frame fetched after the start, and the first record is the frame of
\* the next capture.
C25_OriginStep ==
    /\ (~cam.recording_video /\ cam'.recording_video) =>
          /\ cam'.converted_image # NoImage
          /\ cam.converted_image # NoImage =>
                cam'.converted_image = cam.converted_image /\ nFetched' = nFetched
          /\ cam.converted_image = NoImage =>
                cam'.converted_image.id = nFetched + 1 /\ nFetched' = nFetched + 1
          /\ cam'.video_start_time = cam'.converted_image.ts
          /\ OpenFile(fs', cam') = VideoHeaderBytes(ZeroHeader)
    /\ (cam.recording_video /\ cam'.recording_video /\ fs' # fs) =>
          /\ nFetched' = nFetched + 1
          /\ cam'.converted_image.id = nFetched'
          /\ cam'.video_file.name = cam.video_file.name
          /\ \A i \in 1..Len(OpenFile(fs', cam')) :
                i > Len(OpenFile(fs, cam)) =>
                   /\ OpenFile(fs', cam')[i].f \in {"FrameNumber", "FrameTime", "Pixels"}
                   /\ OpenFile(fs', cam')[i].f = "Pixels" =>
                         OpenFile(fs', cam')[i] = PixelBytes(cam'.converted_image)[1]
          \* no write has failed before: the handle stands at the end of the header
          /\ (cam.frames_recorded = 0 /\ exc' = NoExc
                /\ OpenFile(fs, cam) = VideoHeaderBytes(ZeroHeader)
                /\ cam.video_file.pos = VideoHeaderSize) =>
                /\ NumRecords(OpenFile(fs', cam')) = 1
                /\ RecordAt(OpenFile(fs', cam'), 1).num = 0
                /\ RecordAt(OpenFile(fs', cam'), 1).pix.v = nFetched + 1
                /\ RecordAt(OpenFile(fs', cam'), 1).pix.v > cam.converted_image.id

C25_OriginFrameNotRecorded == [][C25_OriginStep]_vars

C25_Witness ==
    /\ cam.recording_video
    /\ cam.frames_recorded = 1
    /\ cam.begun = 1
    /\ cam.life = <<"BeginAcquisition">>
    /\ nFetched = 2
    /\ cam.video_start_time = 0
    /\ NumRecords(OpenFile(fs, cam)) = 1
    /\ RecordAt(OpenFile(fs, cam), 1).pix.v = 2
    /\ RecordAt(OpenFile(fs, cam), 1).time = FrameTime(TsStep, 0)

\* a session is opened after the previous one was finalized
NextSessionStarts == sess.finalized /\ ~cam.recording_video /\ cam'.recording_video

\* C26 as stated: a session started after a previous one was stopped begins
\* with frame counter 0 and its own start timestamp, and the RecordedFrames
\* value written to the previous session's header is not affected.
C26_PreviousHeaderKept ==
    [][NextSessionStarts =>
          /\ cam'.frames_recorded = 0
          /\ cam'.video_start_time = cam'.converted_image.ts
          /\ Exists(fs', sess.name)
          /\ FieldOf(fs'.files[sess.name], "RecordedFrames") =
                FieldOf(fs.files[sess.name], "RecordedFrames")]_vars

\* C26 amended: a session started after a previous one was stopped begins with
\* frame counter 0 and its own start timestamp, its first record has
\* FrameNumber 0 and its finalized header counts only its own frames. A step
\* changes no file but the one the camera holds open, so the previous session's
\* file is kept unless the new session opens the same name, which replaces it.
C26_SessionStep ==
    /\ NextSessionStarts =>
          /\ cam'.frames_recorded = 0
          /\ cam'.video_start_time = cam'.converted_image.ts
          /\ sess'.fetches = 0
          /\ OpenFile(fs', cam') = VideoHeaderBytes(ZeroHeader)
          /\ cam'.video_file.name # sess.name =>
                fs'.files[sess.name] = fs.files[sess.name]
    /\ \A n \in DOMAIN fs.files :
          n \notin {cam.video_file.name, cam'.video_file.name} =>
             (Exists(fs', n) /\ fs'.files[n] = fs.files[n])
    /\ (cam.recording_video /\ cam.frames_recorded = 0 /\ cam'.frames_recorded = 1) =>
          /\ NumRecords(OpenFile(fs', cam')) = 1
          /\ RecordAt(OpenFile(fs', cam'), 1).num = 0
    /\ (cam.recording_video /\ ~cam'.recording_video) =>
          /\ FieldOf(fs'.files[sess.name], "RecordedFrames") = sess.fetches
          /\ NumRecords(fs'.files[sess.name]) = sess.fetches

C26_SessionsIndependent == [][C26_SessionStep]_vars

C26_Witness ==
    /\ cam.recording_video
    /\ sess.name = AlternateName(NameInDir)
    /\ cam.video_file.name = sess.name
    /\ cam.frames_recorded = 1
    /\ RecordAt(OpenFile(fs, cam), 1).num = 0
    /\ Exists(fs, NameInDir)
    /\ WholeRecords(fs.files[NameInDir])
    /\ FieldOf(fs.files[NameInDir], "RecordedFrames") = 1
    /\ NumRecords(fs.files[NameInDir]) = 1

\* C27: the collision rule is applied once per open and not retried. When the
\* target and the alternate name both exist, the alternate having been there
\* before the run or written by an earlier session of it, the new session opens
\* the alternate name and replaces its content; the target stays untouched and
\* no third name is created.
C27_CollisionNotRetried ==
    [][(/\ LoopStepFrom("checkStart")
        /\ recStart
        /\ ~cam.recording_video
        /\ cam'.recording_video
        /\ Exists(fs, NormalizeName(recName))
        /\ Exists(fs, WithOneBeforeExtension(NormalizeName(recName)))) =>
          LET target == NormalizeName(recName)
              alternate == WithOneBeforeExtension(target)
          IN  /\ cam'.video_file.name = alternate
              /\ DOMAIN fs'.files = DOMAIN fs.files
              /\ fs'.files[alternate] = VideoHeaderBytes(ZeroHeader)
              /\ fs'.files[target] = fs.files[target]]_vars

C27_Witness ==
    /\ pc = "clearStart"
    /\ tick.started
    /\ cam.video_file.name = WithOneBeforeExtension(NameInDir)
    /\ DOMAIN fs.files = {NameInDir, WithOneBeforeExtension(NameInDir)}
    /\ fs.files[NameInDir] = OldContent
    /\ OpenFile(fs, cam) = VideoHeaderBytes(ZeroHeader)
    /\ cam.converted_image.id = 2
    /\ recStop

\* the failures of servicing start-recording that the loop may meet
StartFaults == {"makedirs", "listdir", "open", "recName"}

\* C28: an error raised while a tick services start-recording (the directory
\* cannot be created, the listing fails, the file cannot be opened, no name is
\* published under 'fname') ends the capture loop and tears the camera down,
\* and does not leave the loop running in Idle; recStart is still set, since it
\* is cleared only after start_recording has returned.
C28_StartErrorEndsLoop ==
    tick.fault \in StartFaults =>
       /\ exc \in {"OSError", "FileNotFoundError", "KeyError"}
       /\ pc \in {"finally", "done"}
       /\ recStart
       /\ ~cam.recording_video
       /\ pc = "finally" => cam.streaming /\ cam.initialized
       /\ pc = "done" =>
             /\ ~cam.streaming
             /\ ~cam.initialized
             /\ cam.life = <<"BeginAcquisition", "EndAcquisition", "DeInit">>

C28_Witness ==
    /\ pc = "done"
    /\ tick.fault = "open"
    /\ exc = "OSError"
    /\ recStart
    /\ ~stopped
    /\ ~cam.recording_video
    /\ ~cam.initialized

\* C29: when an exception ends the loop while a session is Recording, the
\* session is never finalized: the header of its file stays the placeholder
\* with RecordedFrames = 0 whatever the number of frame records behind it, and
\* the camera is closed with the recording state still active and the handle
\* still held.
C29_AfterErrorState ==
    (pc \in {"finally", "done"} /\ exc # NoExc /\ cam.recording_video) =>
        /\ ~tick.stopped
        /\ ~sess.finalized
        /\ cam.video_file.name = sess.name
        /\ Exists(fs, sess.name)
        /\ HeaderOf(SessionFile) = VideoHeaderBytes(ZeroHeader)
        /\ FieldOf(SessionFile, "RecordedFrames") = 0
        /\ NumRecords(SessionFile) = cam.frames_recorded
        /\ isRecording(cam)

C29_CloseStep ==
    (LoopStepFrom("finally") /\ exc # NoExc /\ cam.recording_video) =>
        /\ pc' = "done"
        /\ fs' = fs
        /\ cam'.recording_video
        /\ cam'.video_file = cam.video_file
        /\ cam'.frames_recorded = cam.frames_recorded
        /\ ~cam'.streaming /\ ~cam'.initialized

C30_IncompleteStep ==
    /\ (/\ cam.recording_video
        /\ cam'.converted_image.id # cam.converted_image.id
        /\ exc' = NoExc) =>
          /\ cam'.converted_image.id = nFetched + 1
          /\ cam'.recording_video
          /\ cam'.frames_recorded = cam.frames_recorded + 1
          /\ cam'.video_file.pos = cam.video_file.pos + RecordSize
          /\ OpenFile(fs', cam') =
                WriteAt(OpenFile(fs, cam), cam.video_file.pos,
                        FrameHeaderBytes(cam.frames_recorded,
                                         FrameTime(cam'.converted_image.ts,
                                                   cam.video_start_time))
                           \o <<Cell("Pixels", cam'.converted_image.id, cam'.converted_image.ts)>>)
    /\ cam'.life = cam.life \o <<"BeginAcquisition", "Image incomplete", "EndAcquisition">> =>
          /\ fs' = fs
          /\ nFetched' = nFetched + 1
          /\ cam'.converted_image = cam.converted_image
    /\ cam'.life = cam.life \o <<"BeginAcquisition", "EndAcquisition">> =>
          /\ Exists(fs', StillName)
          /\ fs'.files[StillName][1].f = "Pixels"
          /\ fs'.files[StillName][1].v = nFetched + 1
          /\ nFetched' = nFetched + 1

C30_IncompleteFrameRecorded == [][C30_IncompleteStep]_vars

C30_Witness ==
    /\ cam.recording_video
    /\ cam.converted_image.incomplete
    /\ cam.converted_image.id = 3
    /\ cam.frames_recorded = 1
    /\ NumRecords(OpenFile(fs, cam)) = 1
    /\ RecordAt(OpenFile(fs, cam), 1).pix.v = 3
    /\ cam.life = <<"BeginAcquisition", "Image incomplete", "EndAcquisition",
                    "BeginAcquisition">>
    /\ ~Exists(fs, StillName)

====
